---- MODULE Spec2Model ----
(***************************************************************************)
(* A model of tools/mkfat32.py: create_fat32_image(filename, size_mb) and  *)
(* the command-line entry point.                                           *)
(*                                                                         *)
(* Python integers are unbounded, so every quantity derived from size_mb   *)
(* (sector counts, byte offsets, buffer lengths) is kept in limbs, never   *)
(* in one machine integer.  A byte buffer or a file is its length together *)
(* with the bytes in it that are not zero: bytearray(n) and b'\x00' * n    *)
(* are n zero bytes, however large n is.                                   *)
(***************************************************************************)
EXTENDS Integers, Sequences

(***************************************************************************)
(* Bounds of the model.                                                    *)
(***************************************************************************)
MaxSizeMb == 3
MaxExtraArgs == 2

(***************************************************************************)
(* Python integers (non-negative).  A natural is the triple of its limbs   *)
(* <<l0, l1, l2>>, standing for l0 + l1 * 2^16 + l2 * 2^32 with l0 and l1  *)
(* below 2^16 and l2 any natural: every natural has exactly one triple.    *)
(* Every product of a limb and a multiplier of the program (at most 2048)  *)
(* stays far below 2^31.                                                   *)
(***************************************************************************)
Base == 256 * 256

BigFromNat(n) == << n % Base, (n \div Base) % Base, (n \div Base) \div Base >>

BigZero == <<0, 0, 0>>

BigAdd(a, b) ==
    LET t0 == a[1] + b[1]
        t1 == a[2] + b[2] + (t0 \div Base)
    IN  << t0 % Base, t1 % Base, a[3] + b[3] + (t1 \div Base) >>

\* a * k for a small k
BigMul(a, k) ==
    LET t0 == a[1] * k
        t1 == (a[2] * k) + (t0 \div Base)
    IN  << t0 % Base, t1 % Base, (a[3] * k) + (t1 \div Base) >>

\* a // d for a small d > 0 (floor division)
BigFloorDiv(a, d) ==
    LET c1 == ((a[3] % d) * Base) + a[2]
        c0 == ((c1 % d) * Base) + a[1]
    IN  << c0 \div d, c1 \div d, a[3] \div d >>

BigLess(a, b) ==
    IF a[3] # b[3] THEN a[3] < b[3]
    ELSE IF a[2] # b[2] THEN a[2] < b[2]
    ELSE a[1] < b[1]

BigLeq(a, b) == a = b \/ BigLess(a, b)

BigMax(a, b) == IF BigLess(a, b) THEN b ELSE a

\* a - b for a >= b
BigMinus(a, b) ==
    LET t0 == a[1] - b[1]
        t1 == a[2] - b[2] - (IF t0 < 0 THEN 1 ELSE 0)
    IN  << IF t0 < 0 THEN t0 + Base ELSE t0,
           IF t1 < 0 THEN t1 + Base ELSE t1,
           a[3] - b[3] - (IF t1 < 0 THEN 1 ELSE 0) >>

\* a - b as a signed Python int: [neg, mag]
BigSub(a, b) ==
    IF BigLess(a, b) THEN [neg |-> TRUE,  mag |-> BigMinus(b, a)]
    ELSE                  [neg |-> FALSE, mag |-> BigMinus(a, b)]

(***************************************************************************)
(* Byte buffers (bytearray, bytes) and struct.pack_into.                   *)
(***************************************************************************)
EmptyMap == [k \in {} |-> 0]

\* bytearray(n): n zero bytes
NewBytearray(n) == [len |-> n, nz |-> EmptyMap]

\* b'\x00' * n
ZeroBytes(n) == [len |-> n, nz |-> EmptyMap]

ByteOf(buf, i) == IF i \in DOMAIN buf.nz THEN buf.nz[i] ELSE 0

\* bytes of storage of one item of a format code
ItemSize(code) ==
    CASE code = "B" -> 1
      [] code = "H" -> 2
      [] code = "I" -> 4
      [] code = "s" -> 1

\* struct.calcsize of '<' count code
CalcSize(fmt) == fmt.count * ItemSize(fmt.code)

\* the number of bytes the value v needs (5 stands for 5 or more)
NumBytes(v) ==
    IF v[3] > 0 THEN 5
    ELSE IF v[2] >= 256 THEN 4
    ELSE IF v[2] > 0 THEN 3
    ELSE IF v[1] >= 256 THEN 2
    ELSE IF v[1] > 0 THEN 1
    ELSE 0

\* byte i (0 is the least significant) of v, for i in 0..3
ByteOfBig(v, i) ==
    LET l == v[(i \div 2) + 1]
    IN  IF i % 2 = 0 THEN l % 256 ELSE l \div 256

\* struct raises struct.error for an integer that does not fit its code
CanPack(fmt, args) ==
    fmt.code = "s" \/ \A i \in 1..Len(args) : NumBytes(args[i]) <= ItemSize(fmt.code)

PackBytesBigEndian(fmt, args) ==
    [j \in 1..CalcSize(fmt) |->
        IF fmt.code = "s"
        THEN IF j <= Len(args[1]) THEN args[1][j] ELSE 0
        ELSE ByteOfBig(args[((j - 1) \div ItemSize(fmt.code)) + 1],
                       ItemSize(fmt.code) - 1 - ((j - 1) % ItemSize(fmt.code)))]

\* struct.pack('<...'): little-endian, no padding; 's' is padded with zero bytes
PackBytes(fmt, args) ==
    [j \in 1..CalcSize(fmt) |->
        IF fmt.code = "s"
        THEN IF j <= Len(args[1]) THEN args[1][j] ELSE 0
        ELSE ByteOfBig(args[((j - 1) \div ItemSize(fmt.code)) + 1],
                       (j - 1) % ItemSize(fmt.code))]

BufferFitsUnchecked(fmt, buf, off) == TRUE

\* struct.pack_into raises struct.error when the buffer is too short
BufferFits(fmt, buf, off) == BigLeq(BigFromNat(off + CalcSize(fmt)), buf.len)

PackIntoOk(fmt, buf, off, args) == BufferFits(fmt, buf, off) /\ CanPack(fmt, args)

\* struct.pack_into(fmt, buf, off, *args)
PackInto(fmt, buf, off, args) ==
    LET bytes == PackBytes(fmt, args)
        range == off..(off + CalcSize(fmt) - 1)
        keys  == (DOMAIN buf.nz \ range) \cup {k \in range : bytes[(k - off) + 1] # 0}
    IN  [len |-> buf.len,
         nz  |-> [k \in keys |-> IF k \in range THEN bytes[(k - off) + 1] ELSE buf.nz[k]]]

(***************************************************************************)
(* The constants of create_fat32_image.                                    *)
(***************************************************************************)
DefaultSizeMb == 32
sector_size == 512
reserved_sectors == 32
sectors_per_cluster == 1
num_fats == 2
root_cluster == 2
BpbSize == 512

OemName == <<77, 75, 70, 65, 84, 51, 50, 32>>                    \* b'MKFAT32 '
VolumeLabel == <<73, 67, 69, 79, 83, 32, 68, 73, 83, 75, 32>>    \* b'ICEOS DISK '
FsType == <<70, 65, 84, 51, 50, 32, 32, 32>>                     \* b'FAT32   '
VolumeId == <<22136, 4660, 0>>                                     \* 0x12345678
Eoc == <<65535, 4095, 0>>                                          \* 0x0FFFFFFF
MediaEntry == <<65528, 4095, 0>>                                   \* 0x0FFFFFF8

Fld(code, count, off, args) ==
    [fmt |-> [code |-> code, count |-> count], off |-> off, args |-> args]

N(n) == BigFromNat(n)

\* total_sectors = (size_mb * 1024 * 1024) // sector_size
TotalSectors(size) == BigFloorDiv(BigMul(BigMul(N(size), 1024), 1024), sector_size)

\* total_clusters = total_sectors // sectors_per_cluster
TotalClusters(ts) == BigFloorDiv(ts, sectors_per_cluster)

FatSizeSectorsOffByOne(tc) == BigFloorDiv(BigAdd(BigMul(tc, 4), N(512)), 512)

\* fat_size_sectors = (total_clusters * 4 + 511) // 512
FatSizeSectors(tc) == BigFloorDiv(BigAdd(BigMul(tc, 4), N(511)), 512)

BpbFieldsLabelShifted(ts, fs) ==
    << Fld("B", 3, 0, <<N(235), N(60), N(144)>>), Fld("s", 8, 3, <<OemName>>),
       Fld("H", 1, 11, <<N(sector_size)>>), Fld("B", 1, 13, <<N(sectors_per_cluster)>>),
       Fld("H", 1, 14, <<N(reserved_sectors)>>), Fld("B", 1, 16, <<N(num_fats)>>),
       Fld("H", 1, 17, <<N(0)>>), Fld("H", 1, 19, <<N(0)>>),
       Fld("B", 1, 21, <<N(248)>>), Fld("H", 1, 22, <<N(0)>>),
       Fld("H", 1, 24, <<N(32)>>), Fld("H", 1, 26, <<N(64)>>),
       Fld("I", 1, 28, <<N(0)>>), Fld("I", 1, 32, <<ts>>),
       Fld("I", 1, 36, <<fs>>), Fld("H", 1, 40, <<N(0)>>),
       Fld("H", 1, 42, <<N(0)>>), Fld("I", 1, 44, <<N(root_cluster)>>),
       Fld("H", 1, 48, <<N(1)>>), Fld("H", 1, 50, <<N(6)>>),
       Fld("B", 1, 64, <<N(128)>>), Fld("B", 1, 66, <<N(41)>>),
       Fld("I", 1, 67, <<VolumeId>>), Fld("s", 11, 72, <<VolumeLabel>>),
       Fld("s", 8, 82, <<FsType>>), Fld("H", 1, 510, <<N(43605)>>) >>

\* the struct.pack_into calls on bpb, in program order
BpbFields(ts, fs) ==
    << Fld("B", 3, 0, <<N(235), N(60), N(144)>>),       \* 29: EB 3C 90
       Fld("s", 8, 3, <<OemName>>),                     \* 32
       Fld("H", 1, 11, <<N(sector_size)>>),             \* 35
       Fld("B", 1, 13, <<N(sectors_per_cluster)>>),     \* 36
       Fld("H", 1, 14, <<N(reserved_sectors)>>),        \* 37
       Fld("B", 1, 16, <<N(num_fats)>>),                \* 38
       Fld("H", 1, 17, <<N(0)>>),                       \* 39
       Fld("H", 1, 19, <<N(0)>>),                       \* 40
       Fld("B", 1, 21, <<N(248)>>),                     \* 41: 0xF8
       Fld("H", 1, 22, <<N(0)>>),                       \* 42
       Fld("H", 1, 24, <<N(32)>>),                      \* 43
       Fld("H", 1, 26, <<N(64)>>),                      \* 44
       Fld("I", 1, 28, <<N(0)>>),                       \* 45
       Fld("I", 1, 32, <<ts>>),                         \* 46
       Fld("I", 1, 36, <<fs>>),                         \* 49
       Fld("H", 1, 40, <<N(0)>>),                       \* 50
       Fld("H", 1, 42, <<N(0)>>),                       \* 51
       Fld("I", 1, 44, <<N(root_cluster)>>),            \* 52
       Fld("H", 1, 48, <<N(1)>>),                       \* 53
       Fld("H", 1, 50, <<N(6)>>),                       \* 54
       Fld("B", 1, 64, <<N(128)>>),                     \* 57: 0x80
       Fld("B", 1, 66, <<N(41)>>),                      \* 58: 0x29
       Fld("I", 1, 67, <<VolumeId>>),                   \* 59
       Fld("s", 11, 71, <<VolumeLabel>>),               \* 60
       Fld("s", 8, 82, <<FsType>>),                     \* 61
       Fld("H", 1, 510, <<N(43605)>>) >>                \* 64: 0xAA55

FatFieldsNoRootEntry == << Fld("I", 1, 0, <<MediaEntry>>), Fld("I", 1, 4, <<Eoc>>) >>

\* the struct.pack_into calls on fat_data, in program order
FatFields ==
    << Fld("I", 1, 0, <<MediaEntry>>),                  \* 79
       Fld("I", 1, 4, <<Eoc>>),                         \* 80
       Fld("I", 1, 8, <<Eoc>>) >>                       \* 81

(***************************************************************************)
(* The output file: f.write and f.seek on a file opened 'wb'.              *)
(***************************************************************************)
\* the bytes of the file after buf is written at the handle's position
FileAfterWrite(d, pos, buf) ==
    LET end     == BigAdd(pos, buf.len)
        newkeys == {BigAdd(pos, N(j)) : j \in DOMAIN buf.nz}
        kept    == {k \in DOMAIN d.nz : ~(BigLeq(pos, k) /\ BigLess(k, end))}
    IN  [exists |-> TRUE,
         size   |-> BigMax(d.size, end),
         nz     |-> [k \in kept \cup newkeys |->
                        IF k \in newkeys
                        THEN buf.nz[CHOOSE j \in DOMAIN buf.nz : BigAdd(pos, N(j)) = k]
                        ELSE d.nz[k]]]

\* byte k of the file (a hole left by a seek past the end reads as zero)
FileByte(d, k) == IF k \in DOMAIN d.nz THEN d.nz[k] ELSE 0

SeekTargetNoMinusOne(ts) == BigSub(BigMul(ts, sector_size), N(0))

SeekTargetEndOfSector(ts) == BigSub(N(sector_size), N(1))

\* (total_sectors * sector_size) - 1
SeekTarget(ts) == BigSub(BigMul(ts, sector_size), N(1))

NoFile == [exists |-> FALSE, size |-> BigZero, nz |-> EmptyMap]

\* a file left at the output path by an earlier run of something else
StaleFile == [exists |-> TRUE, size |-> N(600), nz |-> [k \in {N(510)} |-> 1]]

\* open(filename, 'wb') creates the file or truncates it
Truncated == [exists |-> TRUE, size |-> BigZero, nz |-> EmptyMap]

(***************************************************************************)
(* Inputs.                                                                 *)
(***************************************************************************)
\* the largest size_mb whose total_sectors fits 32 bits: 2097151
LastU32SizeMb == (32 * Base) - 1

SizeMbs == (0..MaxSizeMb) \cup {DefaultSizeMb, LastU32SizeMb, LastU32SizeMb + 1}

ArgTokens == {"disk.img", "64"}

RECURSIVE SeqsUpTo(_, _)
SeqsUpTo(S, n) ==
    IF n = 0 THEN {<<>>}
    ELSE LET shorter == SeqsUpTo(S, n - 1)
         IN  shorter \cup {Append(q, x) : q \in shorter, x \in S}

Argvs == {<<"mkfat32.py">> \o extra : extra \in SeqsUpTo(ArgTokens, MaxExtraArgs)}

UsageLine == "Usage: mkfat32.py <output_file>"

(***************************************************************************)
(* State.                                                                  *)
(***************************************************************************)
VARIABLES
    pc,                 \* the statement about to run
    entry,              \* "main": run as a script; "call": create_fat32_image called
    argv,               \* sys.argv
    filename, size_mb,  \* the arguments of create_fat32_image
    total_sectors, total_clusters, fat_size_sectors,
    used_sectors, remaining_sectors,
    bpb, fat_data,      \* the two bytearrays
    idx,                \* the next struct.pack_into call of the current buffer
    f,                  \* the file object: [state, pos]
    disk,               \* the file at the output path
    exc,                \* the exception being propagated, or "none"
    stdout, exit_code,  \* of the process, when run as a script
    writes,             \* history: the [off, len] of every f.write, in order
    opens               \* history: how many times the output was opened

vars == << pc, entry, argv, filename, size_mb, total_sectors, total_clusters,
           fat_size_sectors, used_sectors, remaining_sectors, bpb, fat_data, idx,
           f, disk, exc, stdout, exit_code, writes, opens >>

locals == << total_sectors, total_clusters, fat_size_sectors, used_sectors,
             remaining_sectors, bpb, fat_data, idx >>

process == << entry, argv, stdout, exit_code >>

Init ==
    /\ pc = "start"
    /\ entry = "none"
    /\ argv = <<>>
    /\ filename = ""
    /\ size_mb = 0
    /\ total_sectors = BigZero
    /\ total_clusters = BigZero
    /\ fat_size_sectors = BigZero
    /\ used_sectors = BigZero
    /\ remaining_sectors = [neg |-> FALSE, mag |-> BigZero]
    /\ bpb = NewBytearray(BigZero)
    /\ fat_data = NewBytearray(BigZero)
    /\ idx = 0
    /\ f = [state |-> "none", pos |-> BigZero]
    /\ disk \in {NoFile, StaleFile}
    /\ exc = "none"
    /\ stdout = <<>>
    /\ exit_code = -1
    /\ writes = <<>>
    /\ opens = 0

(***************************************************************************)
(* The command line (lines 104-108).                                       *)
(***************************************************************************)
MainUsageExitsZero(av) ==
    /\ pc = "start"
    /\ Len(av) < 2
    /\ argv' = av
    /\ entry' = "main"
    /\ stdout' = Append(stdout, UsageLine)
    /\ exit_code' = 0
    /\ pc' = "exited"
    /\ UNCHANGED << filename, size_mb, locals, f, disk, exc, writes, opens >>

\* len(sys.argv) < 2: print the usage line and sys.exit(1)
MainUsage(av) ==
    /\ pc = "start"
    /\ Len(av) < 2
    /\ argv' = av
    /\ entry' = "main"
    /\ stdout' = Append(stdout, UsageLine)
    /\ exit_code' = 1
    /\ pc' = "exited"
    /\ UNCHANGED << filename, size_mb, locals, f, disk, exc, writes, opens >>

\* create_fat32_image(sys.argv[1]): size_mb takes its default
MainCreate(av) ==
    /\ pc = "start"
    /\ ~(Len(av) < 2)
    /\ argv' = av
    /\ entry' = "main"
    /\ filename' = av[2]
    /\ size_mb' = DefaultSizeMb
    /\ pc' = "geometry"
    /\ UNCHANGED << stdout, exit_code, locals, f, disk, exc, writes, opens >>

\* create_fat32_image(name, size) called by an importing program
Call(name, size) ==
    /\ pc = "start"
    /\ entry' = "call"
    /\ filename' = name
    /\ size_mb' = size
    /\ pc' = "geometry"
    /\ UNCHANGED << argv, stdout, exit_code, locals, f, disk, exc, writes, opens >>

\* the interpreter ends: status 0, or 1 with a traceback for an uncaught exception
ProcessExit ==
    /\ entry = "main"
    /\ pc \in {"returned", "raised"}
    /\ exit_code' = IF pc = "returned" THEN 0 ELSE 1
    /\ pc' = "exited"
    /\ UNCHANGED << entry, argv, stdout, filename, size_mb, locals, f, disk, exc,
                    writes, opens >>

(***************************************************************************)
(* create_fat32_image (lines 5-102).                                       *)
(***************************************************************************)
\* lines 6-19
Geometry ==
    /\ pc = "geometry"
    /\ total_sectors' = TotalSectors(size_mb)
    /\ total_clusters' = TotalClusters(total_sectors')
    /\ fat_size_sectors' = FatSizeSectors(total_clusters')
    /\ pc' = "alloc_bpb"
    /\ UNCHANGED << process, filename, size_mb, used_sectors, remaining_sectors,
                    bpb, fat_data, idx, f, disk, exc, writes, opens >>

\* line 26
AllocBpb ==
    /\ pc = "alloc_bpb"
    /\ bpb' = NewBytearray(N(BpbSize))
    /\ idx' = 1
    /\ pc' = "pack_bpb"
    /\ UNCHANGED << process, filename, size_mb, total_sectors, total_clusters,
                    fat_size_sectors, used_sectors, remaining_sectors, fat_data,
                    f, disk, exc, writes, opens >>

\* lines 29-64, one struct.pack_into at a time
PackBpb ==
    /\ pc = "pack_bpb"
    /\ \E fields \in {BpbFields(total_sectors, fat_size_sectors)} :
        \E fld \in {fields[idx]} :
           /\ PackIntoOk(fld.fmt, bpb, fld.off, fld.args)
           /\ bpb' = PackInto(fld.fmt, bpb, fld.off, fld.args)
           /\ idx' = idx + 1
           /\ pc' = IF idx = Len(fields) THEN "open" ELSE "pack_bpb"
    /\ UNCHANGED << process, filename, size_mb, total_sectors, total_clusters,
                    fat_size_sectors, used_sectors, remaining_sectors, fat_data,
                    f, disk, exc, writes, opens >>

\* a struct.pack_into of lines 29-64 raises struct.error: no file was opened yet
PackBpbError ==
    /\ pc = "pack_bpb"
    /\ \E fld \in {BpbFields(total_sectors, fat_size_sectors)[idx]} :
           ~PackIntoOk(fld.fmt, bpb, fld.off, fld.args)
    /\ exc' = "struct.error"
    /\ pc' = "raised"
    /\ UNCHANGED << process, filename, size_mb, locals, f, disk, writes, opens >>

\* line 67: open(filename, 'wb')
Open ==
    /\ pc = "open"
    /\ f' = [state |-> "open", pos |-> BigZero]
    /\ disk' = Truncated
    /\ opens' = opens + 1
    /\ pc' = "write_boot"
    /\ UNCHANGED << process, filename, size_mb, locals, exc, writes >>

\* line 67: open raises OSError (no permission, no such directory): nothing to close
OpenError ==
    /\ pc = "open"
    /\ exc' = "OSError"
    /\ pc' = "raised"
    /\ UNCHANGED << process, filename, size_mb, locals, f, disk, writes, opens >>

\* f.write(buf), then on to the statement `to`
Write(from, to, buf) ==
    /\ pc = from
    /\ f.state = "open"
    /\ disk' = FileAfterWrite(disk, f.pos, buf)
    /\ f' = [f EXCEPT !.pos = BigAdd(f.pos, buf.len)]
    /\ writes' = Append(writes, [off |-> f.pos, len |-> buf.len])
    /\ pc' = to
    /\ UNCHANGED << process, filename, size_mb, locals, exc, opens >>

\* line 69
WriteBoot == Write("write_boot", "write_reserved", bpb)

ReservedFillWholeRegion == ZeroBytes(N(sector_size * reserved_sectors))

\* b'\x00' * (sector_size * (reserved_sectors - 1))
ReservedFill == ZeroBytes(N(sector_size * (reserved_sectors - 1)))

\* line 72
WriteReserved == Write("write_reserved", "alloc_fat", ReservedFill)

\* line 78
AllocFat ==
    /\ pc = "alloc_fat"
    /\ fat_data' = NewBytearray(BigMul(fat_size_sectors, sector_size))
    /\ idx' = 1
    /\ pc' = "pack_fat"
    /\ UNCHANGED << process, filename, size_mb, total_sectors, total_clusters,
                    fat_size_sectors, used_sectors, remaining_sectors, bpb,
                    f, disk, exc, writes, opens >>

\* line 78: bytearray raises MemoryError (the FAT of a large image is gigabytes)
AllocFatError ==
    /\ pc = "alloc_fat"
    /\ exc' = "MemoryError"
    /\ pc' = "with_exit"
    /\ UNCHANGED << process, filename, size_mb, locals, f, disk, writes, opens >>

\* lines 79-81, one struct.pack_into at a time
PackFat ==
    /\ pc = "pack_fat"
    /\ \E fld \in {FatFields[idx]} :
           /\ PackIntoOk(fld.fmt, fat_data, fld.off, fld.args)
           /\ fat_data' = PackInto(fld.fmt, fat_data, fld.off, fld.args)
           /\ idx' = idx + 1
           /\ pc' = IF idx = Len(FatFields) THEN "write_fat1" ELSE "pack_fat"
    /\ UNCHANGED << process, filename, size_mb, total_sectors, total_clusters,
                    fat_size_sectors, used_sectors, remaining_sectors, bpb,
                    f, disk, exc, writes, opens >>

\* a struct.pack_into of lines 79-81 raises struct.error inside the with block
PackFatError ==
    /\ pc = "pack_fat"
    /\ \E fld \in {FatFields[idx]} :
           ~PackIntoOk(fld.fmt, fat_data, fld.off, fld.args)
    /\ exc' = "struct.error"
    /\ pc' = "with_exit"
    /\ UNCHANGED << process, filename, size_mb, locals, f, disk, writes, opens >>

\* line 82
WriteFat1 == Write("write_fat1", "write_fat2", fat_data)

\* line 85
WriteFat2 == Write("write_fat2", "used", fat_data)

\* lines 90-91
Used ==
    /\ pc = "used"
    /\ used_sectors' = BigAdd(N(reserved_sectors), BigMul(fat_size_sectors, num_fats))
    /\ remaining_sectors' = BigSub(total_sectors, used_sectors')
    /\ pc' = "write_root"
    /\ UNCHANGED << process, filename, size_mb, total_sectors, total_clusters,
                    fat_size_sectors, bpb, fat_data, idx, f, disk, exc, writes, opens >>

\* line 96
WriteRoot ==
    Write("write_root", "seek", ZeroBytes(N(sector_size * sectors_per_cluster)))

\* line 101: f.seek(offset) from the start of the file; a negative offset raises
Seek ==
    /\ pc = "seek"
    /\ f.state = "open"
    /\ ~SeekTarget(total_sectors).neg
    /\ f' = [f EXCEPT !.pos = SeekTarget(total_sectors).mag]
    /\ pc' = "write_last"
    /\ UNCHANGED << process, filename, size_mb, locals, disk, exc, writes, opens >>

\* line 102
WriteLast == Write("write_last", "with_exit", ZeroBytes(N(1)))

\* an f.write or the f.seek raises OSError (disk full, not seekable, bad offset);
\* what a failed write leaves in the file is not modelled: the file is unchanged
IOError ==
    /\ pc \in {"write_boot", "write_reserved", "write_fat1", "write_fat2",
               "write_root", "seek", "write_last"}
    /\ exc' = "OSError"
    /\ pc' = "with_exit"
    /\ UNCHANGED << process, filename, size_mb, locals, f, disk, writes, opens >>

WithExitLeavesOpenOnError ==
    /\ pc = "with_exit"
    /\ f' = [f EXCEPT !.state = IF exc = "none" THEN "closed" ELSE "open"]
    /\ pc' = IF exc = "none" THEN "returned" ELSE "raised"
    /\ UNCHANGED << process, filename, size_mb, locals, disk, exc, writes, opens >>

\* the end of the with block (line 67): f.close(), and the exception goes on
WithExit ==
    /\ pc = "with_exit"
    /\ f' = [f EXCEPT !.state = "closed"]
    /\ pc' = IF exc = "none" THEN "returned" ELSE "raised"
    /\ UNCHANGED << process, filename, size_mb, locals, disk, exc, writes, opens >>

Next ==
    \/ \E av \in Argvs : MainUsage(av)
    \/ \E av \in Argvs : MainCreate(av)
    \/ \E name \in {"disk.img"}, size \in SizeMbs : Call(name, size)
    \/ ProcessExit
    \/ Geometry
    \/ AllocBpb
    \/ PackBpb
    \/ PackBpbError
    \/ Open
    \/ OpenError
    \/ WriteBoot
    \/ WriteReserved
    \/ AllocFat
    \/ AllocFatError
    \/ PackFat
    \/ PackFatError
    \/ WriteFat1
    \/ WriteFat2
    \/ Used
    \/ WriteRoot
    \/ Seek
    \/ WriteLast
    \/ IOError
    \/ WithExit

Spec == Init /\ [][Next]_vars

\* the interpreter runs the program to its end: no statement waits on anything
FairSpec == Spec /\ WF_vars(Next)

(***************************************************************************)
(* Vocabulary of the properties.                                           *)
(***************************************************************************)
\* the natural that one to four bytes decode to, little-endian
LEDecode(b) ==
    LET byte(j) == IF j <= Len(b) THEN b[j] ELSE 0
    IN  << byte(1) + (256 * byte(2)), byte(3) + (256 * byte(4)), 0 >>

BufBytes(buf, off, n) == [j \in 1..n |-> ByteOf(buf, off + (j - 1))]

FileBytes(d, k, n) == [j \in 1..n |-> FileByte(d, BigAdd(k, N(j - 1)))]

\* size_mb * 1024 * 1024
ImageBytes == BigMul(BigMul(N(size_mb), 1024), 1024)

\* create_fat32_image was called (the run is not the usage error)
Created == entry = "call" \/ (entry = "main" /\ Len(argv) >= 2)

GeometryDone == Created /\ pc \notin {"start", "geometry"}

\* every struct.pack_into of the boot sector has run
Assembled ==
    /\ GeometryDone
    /\ pc \notin {"alloc_bpb", "pack_bpb"}
    /\ ~(exc = "struct.error" /\ opens = 0)

\* create_fat32_image returned normally
Completed == Created /\ (pc = "returned" \/ (pc = "exited" /\ exit_code = 0))

\* the run is over
Ended == IF entry = "main" THEN pc = "exited" ELSE pc \in {"returned", "raised"}

FatBytes == BigMul(fat_size_sectors, sector_size)
Fat1Start == N(32 * 512)
Fat2Start == BigAdd(Fat1Start, FatBytes)
RootStart == BigAdd(Fat2Start, FatBytes)

InRange(k, lo, n) == BigLeq(lo, k) /\ BigLess(k, BigAdd(lo, n))

(***************************************************************************)
(* C1: for every positive size_mb, once create_fat32_image has completed   *)
(* the file is exactly size_mb * 1024 * 1024 bytes long; while the file is *)
(* being written it is never longer than that, and the last write ends     *)
(* exactly there.                                                          *)
(***************************************************************************)
C1_FileLength ==
    (Created /\ size_mb > 0) =>
        /\ f.state = "open" => BigLeq(disk.size, ImageBytes)
        /\ Completed => disk.size = ImageBytes /\ f.pos = ImageBytes

C1_Witness ==
    Completed /\ size_mb = 2 /\ disk.size = N(2097152) /\ Len(writes) = 6

(***************************************************************************)
(* C2: for every positive size_mb the writes are, in this order, the boot  *)
(* sector at 0, 31 zero sectors, FAT copy 1 at 32*512, FAT copy 2 right    *)
(* after it, one zero cluster right after that, and one byte at the last   *)
(* offset; the file position never moves backwards; in the finished file   *)
(* bytes [0, 512) are the boot sector, each FAT copy starts where stated   *)
(* and the cluster after the two copies is all zero.                       *)
(***************************************************************************)
ExpectedWrites ==
    << [off |-> BigZero, len |-> N(512)],
       [off |-> N(512), len |-> N(31 * 512)],
       [off |-> Fat1Start, len |-> FatBytes],
       [off |-> Fat2Start, len |-> FatBytes],
       [off |-> RootStart, len |-> N(512)],
       [off |-> BigSub(ImageBytes, N(1)).mag, len |-> N(1)] >>

C2_Layout ==
    (GeometryDone /\ size_mb > 0) =>
        /\ Len(writes) <= 6
        /\ \A i \in 1..Len(writes) : writes[i] = ExpectedWrites[i]
        /\ Completed =>
            /\ Len(writes) = 6
            /\ \A j \in 0..511 : FileByte(disk, N(j)) = ByteOf(bpb, j)
            /\ FileBytes(disk, Fat1Start, 4) = <<248, 255, 255, 15>>
            /\ FileBytes(disk, Fat2Start, 4) = <<248, 255, 255, 15>>
            /\ \A k \in DOMAIN disk.nz : ~InRange(k, RootStart, N(512))

C2_NoBacktracking == (f.state = "open" /\ f'.state = "open") => BigLeq(f.pos, f'.pos)

\* C2: the writes follow the fixed order and layout, and the position never
\* moves backwards
C2_StrictOrder == [](C2_Layout) /\ [][C2_NoBacktracking]_vars

C2_Witness ==
    /\ Completed /\ size_mb = 3 /\ Len(writes) = 6
    /\ writes[4].off = N((32 + 48) * 512)
    /\ writes[6].off = N((3 * 1024 * 1024) - 1)

(***************************************************************************)
(* C3: for every positive size_mb the two FAT copies of the finished file  *)
(* are byte-identical, their entries 0, 1 and 2 are 0x0FFFFFF8, 0x0FFFFFFF *)
(* and 0x0FFFFFFF, and every later byte of each copy is zero.              *)
(***************************************************************************)
FatCopyOk(start) ==
    /\ LEDecode(FileBytes(disk, start, 4)) = N(268435448)
    /\ LEDecode(FileBytes(disk, BigAdd(start, N(4)), 4)) = N(268435455)
    /\ LEDecode(FileBytes(disk, BigAdd(start, N(8)), 4)) = N(268435455)
    /\ \A k \in DOMAIN disk.nz : ~InRange(k, BigAdd(start, N(12)), BigSub(FatBytes, N(12)).mag)

\* C3: both FAT copies hold the three reserved entries and nothing else, and
\* are byte-identical
C3_FatCopies ==
    (Completed /\ size_mb > 0) =>
        /\ FatCopyOk(Fat1Start)
        /\ FatCopyOk(Fat2Start)
        /\ BigLeq(N(12), FatBytes)
        /\ \A k \in DOMAIN disk.nz :
              /\ InRange(k, Fat1Start, FatBytes)
                    => FileByte(disk, BigAdd(k, FatBytes)) = disk.nz[k]
              /\ InRange(k, Fat2Start, FatBytes)
                    => FileByte(disk, BigSub(k, FatBytes).mag) = disk.nz[k]

C3_Witness ==
    /\ Completed /\ size_mb = 1
    /\ FileBytes(disk, N(16384 + 8192 + 8), 4) = <<255, 255, 255, 15>>
    /\ FileBytes(disk, N(16384 + 8), 4) = <<255, 255, 255, 15>>

(***************************************************************************)
(* C4: for every positive size_mb, fat_size_sectors is the smallest number *)
(* of 512-byte sectors that holds total_clusters 4-byte entries; for       *)
(* size_mb = 1 the geometry is 2048 sectors, 2048 clusters, 16 FAT sectors.*)
(***************************************************************************)
C4_FatSizeIsCeiling ==
    (GeometryDone /\ size_mb > 0) =>
        /\ BigLeq(BigMul(total_clusters, 4), BigMul(fat_size_sectors, sector_size))
        /\ fat_size_sectors # BigZero
        /\ BigLess(BigMul(BigSub(fat_size_sectors, N(1)).mag, sector_size),
                   BigMul(total_clusters, 4))
        /\ size_mb = 1 =>
              /\ total_sectors = N(2048)
              /\ total_clusters = N(2048)
              /\ fat_size_sectors = N(16)

C4_Witness ==
    pc = "alloc_bpb" /\ size_mb = 1 /\ total_clusters = N(2048) /\ fat_size_sectors = N(16)

(***************************************************************************)
(* C5: once the boot sector has been written, bytes 510 and 511 of the     *)
(* file are 0x55 and 0xAA, and they still are when the image is complete:  *)
(* no later write, the last one-byte write included, overwrites them.      *)
(***************************************************************************)
C5_BootSignature ==
    (Created /\ (Len(writes) >= 1 \/ Completed)) =>
        /\ FileByte(disk, N(510)) = 85
        /\ FileByte(disk, N(511)) = 170
        /\ LEDecode(FileBytes(disk, N(510), 2)) = N(43605)

C5_Witness ==
    Completed /\ size_mb = 1 /\ Len(writes) = 6 /\ FileBytes(disk, N(510), 2) = <<85, 170>>

(***************************************************************************)
(* C6: in the assembled boot sector every field of the layout table holds  *)
(* the value the table gives it, and every byte outside the table's ranges *)
(* (offsets 0-51, 64, 66-89, 510-511) is zero.                             *)
(***************************************************************************)
LayoutOffsets == (0..51) \cup {64} \cup (66..89) \cup {510, 511}

\* the table of the interface section: <<offset, length, value>>
LayoutInts ==
    { <<11, 2, N(512)>>, <<13, 1, N(1)>>, <<14, 2, N(32)>>, <<16, 1, N(2)>>,
      <<17, 2, N(0)>>, <<19, 2, N(0)>>, <<21, 1, N(248)>>, <<22, 2, N(0)>>,
      <<24, 2, N(32)>>, <<26, 2, N(64)>>, <<28, 4, N(0)>>,
      <<32, 4, total_sectors>>, <<36, 4, fat_size_sectors>>,
      <<40, 2, N(0)>>, <<42, 2, N(0)>>, <<44, 4, N(2)>>, <<48, 2, N(1)>>,
      <<50, 2, N(6)>>, <<64, 1, N(128)>>, <<66, 1, N(41)>>,
      <<67, 4, N(305419896)>>, <<510, 2, N(43605)>> }

LayoutStrings ==
    { <<0, <<235, 60, 144>> >>,
      <<3, <<77, 75, 70, 65, 84, 51, 50, 32>> >>,
      <<71, <<73, 67, 69, 79, 83, 32, 68, 73, 83, 75, 32>> >>,
      <<82, <<70, 65, 84, 51, 50, 32, 32, 32>> >> }

\* the bytes one struct.pack_into call of the boot sector writes
FieldRange(fld) == fld.off..(fld.off + CalcSize(fld.fmt) - 1)

\* C6: every table field holds its value, no two field writes overlap, and
\* every byte outside the table's ranges is zero
C6_BootSectorFrame ==
    Assembled =>
        /\ bpb.len = N(512)
        /\ \A i, j \in 1..Len(BpbFields(total_sectors, fat_size_sectors)) :
              i # j => FieldRange(BpbFields(total_sectors, fat_size_sectors)[i])
                          \cap FieldRange(BpbFields(total_sectors, fat_size_sectors)[j]) = {}
        /\ DOMAIN bpb.nz \subseteq LayoutOffsets
        /\ \A e \in LayoutInts : LEDecode(BufBytes(bpb, e[1], e[2])) = e[3]
        /\ \A e \in LayoutStrings : BufBytes(bpb, e[1], Len(e[2])) = e[2]

C6_Witness ==
    /\ Assembled /\ pc = "open" /\ size_mb = 32
    /\ BufBytes(bpb, 71, 11) = VolumeLabel
    /\ ByteOf(bpb, 90) = 0 /\ ByteOf(bpb, 65) = 0 /\ ByteOf(bpb, 52) = 0

(***************************************************************************)
(* C7 as stated: for every positive size_mb, when the run is over the      *)
(* 32-bit field at offset 32 of the boot sector decodes to                 *)
(* size_mb * 1024 * 1024 / 512 and the one at offset 36 to                 *)
(* fat_size_sectors.                                                       *)
(***************************************************************************)
C7_AsStated ==
    (Created /\ size_mb > 0 /\ Ended) =>
        /\ LEDecode(BufBytes(bpb, 32, 4)) = BigMul(N(size_mb), 2048)
        /\ LEDecode(BufBytes(bpb, 36, 4)) = fat_size_sectors

(***************************************************************************)
(* C7 amended: for every positive size_mb up to 2097151 (total_sectors     *)
(* below 2^32) the boot sector is always assembled, its field at offset 32 *)
(* decodes to total_sectors = size_mb * 2048 and its field at offset 36 to *)
(* fat_size_sectors (65536 and 512 for size_mb = 32); for a larger size_mb *)
(* nothing is truncated either: struct.pack_into raises struct.error       *)
(* before the output is opened.                                            *)
(***************************************************************************)
C7_Fields32 ==
    /\ (GeometryDone /\ size_mb > 0 /\ size_mb <= LastU32SizeMb
            /\ pc \notin {"alloc_bpb", "pack_bpb"}) =>
          /\ Assembled
          /\ total_sectors = BigMul(N(size_mb), 2048)
          /\ LEDecode(BufBytes(bpb, 32, 4)) = total_sectors
          /\ LEDecode(BufBytes(bpb, 36, 4)) = fat_size_sectors
          /\ size_mb = 32 =>
                /\ LEDecode(BufBytes(bpb, 32, 4)) = N(65536)
                /\ LEDecode(BufBytes(bpb, 36, 4)) = N(512)
    /\ (GeometryDone /\ size_mb > LastU32SizeMb
            /\ pc \notin {"alloc_bpb", "pack_bpb"}) =>
          /\ exc = "struct.error"
          /\ opens = 0
          /\ BufBytes(bpb, 32, 4) = <<0, 0, 0, 0>>

C7_Witness ==
    /\ pc = "open" /\ size_mb = LastU32SizeMb
    /\ BufBytes(bpb, 32, 4) = <<0, 248, 255, 255>>
    /\ BufBytes(bpb, 36, 4) = <<240, 255, 255, 1>>

(***************************************************************************)
(* C8: run without an output path, the program prints the usage line and   *)
(* exits with status 1 and never opens or touches the output; run with an  *)
(* output path it creates the image at that path with size_mb = 32,        *)
(* whatever further arguments follow.                                      *)
(***************************************************************************)
C8_CommandLine ==
    entry = "main" =>
        /\ Len(argv) < 2 =>
              /\ pc = "exited" /\ exit_code = 1
              /\ stdout = <<UsageLine>>
              /\ opens = 0 /\ f.state = "none" /\ writes = <<>>
              /\ disk \in {NoFile, StaleFile}
        /\ Len(argv) >= 2 =>
              /\ size_mb = 32 /\ filename = argv[2] /\ stdout = <<>>
              /\ (pc = "exited" /\ exit_code = 0) => disk.size = N(32 * 1024 * 1024)

C8_Witness ==
    /\ entry = "main" /\ Len(argv) = 1 /\ pc = "exited" /\ exit_code = 1
    /\ disk = StaleFile

(***************************************************************************)
(* C9 as stated: create_fat32_image raises no error of its own for         *)
(* size_mb = 0.                                                            *)
(***************************************************************************)
C9_AsStated == (Created /\ size_mb = 0) => exc # "struct.error"

(***************************************************************************)
(* C9 amended: size_mb = 0 is not rejected by any validation: the geometry *)
(* is computed as 0 sectors, 0 clusters, 0 FAT sectors and the boot sector *)
(* is assembled without error; but the run never gets past the first       *)
(* struct.pack_into on the empty FAT buffer, which raises struct.error, so *)
(* create_fat32_image never completes: it leaves a closed file of the 32   *)
(* reserved sectors.                                                       *)
(***************************************************************************)
C9_DegenerateGeometry ==
    (GeometryDone /\ size_mb = 0) =>
        /\ total_sectors = BigZero /\ total_clusters = BigZero
        /\ fat_size_sectors = BigZero
        /\ pc \notin {"alloc_bpb", "pack_bpb"} => Assembled
        /\ pc \notin {"write_fat1", "write_fat2", "used", "write_root", "seek",
                      "write_last", "returned"}
        /\ ~Completed
        /\ pc = "pack_fat" => idx = 1 /\ fat_data.len = BigZero
        /\ exc = "struct.error" =>
              /\ opens = 1 /\ Len(writes) = 2 /\ disk.size = N(32 * 512)
              /\ Ended => f.state = "closed"

C9_Witness ==
    /\ size_mb = 0 /\ pc = "raised" /\ exc = "struct.error"
    /\ disk.size = N(16384) /\ f.state = "closed"

(***************************************************************************)
(* C10: the output is opened at most once and only after the boot sector   *)
(* has been assembled; no run ends with the file still open; and whenever  *)
(* the file is open it is eventually closed, whether the block ends        *)
(* normally or an f.write, the bytearray of the FAT, a struct.pack_into or *)
(* the f.seek raises.                                                      *)
(***************************************************************************)
C10_HandleSafety ==
    /\ opens <= 1
    /\ f.state # "none" <=> opens = 1
    /\ f.state = "open" => Assembled
    /\ pc \in {"returned", "raised", "exited"} => f.state # "open"

\* C10: opened once, after assembly; never left open at the end; an open
\* handle is eventually closed
C10_HandleClosed == [](C10_HandleSafety) /\ ((f.state = "open") ~> (f.state = "closed"))

C10_Witness ==
    pc = "raised" /\ exc = "MemoryError" /\ f.state = "closed" /\ opens = 1

====
